---- MODULE Spec2Model ----
(***************************************************************************)
(* Model of group-ssh-chat's session registry, broadcast engine and        *)
(* connection supervisor (sshserver/server.go and the ui bridge).          *)
(*                                                                         *)
(* One worker per session: it first runs the part of handleConnection that *)
(* serves the session's channel request (register, presence push, join     *)
(* notice) and then the session's handleUISession goroutine.  A session's  *)
(* id is its worker's number: uuid.New() yields a value not seen before.   *)
(* Channel requests of one connection are served one after the other, as   *)
(* handleConnection's loop does; each session belongs to a fixed           *)
(* connection (ConnOf) of a fixed user (ConnUser).                         *)
(*                                                                         *)
(* Steps that touch only the worker's own locals are joined to the next    *)
(* step that touches shared state.  A broadcast records whom it wrote to   *)
(* (sent) and whose write returned an error (err), and pushes counts the   *)
(* presence pushes; what a channel takes is kept in sink for the sessions  *)
(* of observed only, which Spec leaves empty.                              *)
(*                                                                         *)
(* The command layer (commands/*.go and registerCommands) is modelled on   *)
(* top: the dispatcher as operators on lines, each callback of a handler   *)
(* as one step taken with the mutex free (the callback locks, does all its *)
(* writes and unlocks).  SpecServing starts from registered sessions and   *)
(* keeps a log of what one session's channel takes (sink); SpecDispatch is *)
(* the dispatcher alone with the handlers of its test.  SpecJoining is the *)
(* server from its start with one sink logged, presence lists included;    *)
(* SpecFair adds weak fairness of every session's server-side steps.       *)
(* SpecBlocking is the server with one client that reads nothing: a write  *)
(* to that session's open channel (blocked) does not return.               *)
(***************************************************************************)
EXTENDS Naturals, Integers, Sequences, FiniteSets, TLC

\* ------------------------------------------------------------------ bounds
MaxSessions == 3      \* sessions ever opened
MaxConns == 2         \* authenticated connections
MaxLines == 1         \* lines submitted, all sessions together
MaxProbes == 1        \* direct removeClientSession calls of the registry harness
MaxChatLines == 2     \* lines submitted in a run that keeps the sink log
MaxCmds == 1          \* command lines submitted, all sessions together
MaxCloses == 1        \* channels closed by clients in a run that keeps the sink
                      \* log, is held to fairness or has a client not reading

\* ------------------------------------------------------------- vocabulary
Conns == 1..MaxConns
Sessions == 1..MaxSessions
Prober == MaxSessions + 1
Workers == 1..(MaxSessions + 1)

\* sync.Mutex zero value: unlocked
NoHolder == 0

\* conn.User() of an authenticated connection
ConnUser(c) == IF c % 2 = 1 THEN "bob" ELSE "alice"

\* clientSSHSession.connection: the connection whose channel request opens the
\* session (connections multiplex several sessions)
ConnOf(s) == ((s - 1) % MaxConns) + 1

VARIABLES
  activeClientsMap,   \* SSHServer.activeClientsMap: user -> sequence of session ids
  activeClientsMutex, \* worker that holds SSHServer.activeClientsMutex, or NoHolder
  connOpen,           \* the ssh connection is open
  chanOpen,           \* the session's ssh channel is open (readable and writable)
  pushes,             \* ghost: calls of updateAllUserLists so far
  pc,                 \* position of each worker
  bc,                 \* locals of the worker's broadcast call
  rm,                 \* locals of the worker's removeClientSession call
  usernames,          \* handleUISession's usernames snapshot
  lines,              \* lines submitted so far
  live,               \* ghost: sessions registered and not yet removed
  probes,             \* harness: direct remove calls made
  commands,           \* CommandManager.commands: keyword -> handler
  cm,                 \* locals of the worker's HandleCommand call
  cmds,               \* command lines submitted so far
  sink,               \* ghost: what was written to each session's channel, in order
  observed,           \* ghost: sessions whose channel output the sink log keeps
  blocked,            \* sessions whose channel takes no more: a write to it never returns
  limit               \* the bounds of the run: lines, command lines, closed channels

\* the command layer's variables, and those of them a write to a channel leaves alone
cmdVars == <<commands, cm, cmds, sink, observed, blocked, limit>>
cmdVarsButSink == <<commands, cm, cmds, observed, blocked, limit>>

vars == <<activeClientsMap, activeClientsMutex, connOpen, chanOpen,
          pushes, pc, bc, rm, usernames, lines, live, probes, cmdVars>>

\* ------------------------------------------------------------ map helpers
MapSet(m, u, v) == [k \in (DOMAIN m) \cup {u} |-> IF k = u THEN v ELSE m[k]]
MapDelete(m, u) == [k \in (DOMAIN m) \ {u} |-> m[k]]
EmptyMap == [k \in {} |-> <<>>]

Range(q) == {q[i] : i \in 1..Len(q)}

\* every order in which a range over a Go map may visit the keys
KeyOrders(S) ==
  {q \in [1..Cardinality(S) -> S] : \A i, j \in 1..Cardinality(S) : i # j => q[i] # q[j]}

RECURSIVE Flatten(_, _)
Flatten(m, order) ==
  IF order = <<>> THEN <<>> ELSE m[Head(order)] \o Flatten(m, Tail(order))

SelectSeqKeys(order, except) == SelectSeq(order, LAMBDA u : u # except)

\* ids of all sessions in the mapping
AllIds(m) == UNION {Range(m[u]) : u \in DOMAIN m}

\* identity of a session
UserOf(s) == ConnUser(ConnOf(s))

\* ---------------------------------------------------------------- messages
\* What a broadcast carries.  from/n are ghost tags naming the call that sent it.
Msg(kind, user, text, w, n) ==
  [kind |-> kind, user |-> user, text |-> text, from |-> w, n |-> n]
NoMsg == Msg("none", "", "", 0, 0)
\* AddMessage(username, message)
ChatMsg(user, text, w, n) == Msg("chat", user, text, w, n)
\* AddSystemMessage(fmt.Sprintf("%s has joined the chat", user)) and the like
SystemMsg(text, user, w) == Msg("system", user, text, w, 0)

\* lines a client types (ordinary chat text, no leading marker)
Texts == {"hi"}

\* --------------------------------------------------------------- strings
\* A line is a sequence of pieces; a piece is the marker "/", one space " ", or
\* a run of characters that holds neither.  Str glues pieces to the string.
RECURSIVE Str(_)
Str(q) == IF q = <<>> THEN "" ELSE Head(q) \o Str(Tail(q))

\* faulty variant: the marker is looked for anywhere in the line
HasMarker(input) == \E i \in 1..Len(input) : input[i] = "/"

\* strings.HasPrefix(input, "/")
HasPrefix(input) == input # <<>> /\ Head(input) = "/"

\* strings.Index(s, " ") + 1, and 0 when s holds no space
IndexSpace(s) ==
  IF \E i \in 1..Len(s) : s[i] = " "
    THEN CHOOSE i \in 1..Len(s) : s[i] = " " /\ \A j \in 1..(i - 1) : s[j] # " "
    ELSE 0

\* strings.SplitN(s, " ", 2): cut at the first space, if there is one
SplitN2(s) ==
  IF IndexSpace(s) = 0
    THEN <<s>>
    ELSE <<SubSeq(s, 1, IndexSpace(s) - 1), SubSeq(s, IndexSpace(s) + 1, Len(s))>>

\* strings.Split(s, " "): cut at every space; one more part than there are spaces
RECURSIVE Split(_)
Split(s) ==
  IF IndexSpace(s) = 0
    THEN <<s>>
    ELSE <<SubSeq(s, 1, IndexSpace(s) - 1)>> \o Split(SubSeq(s, IndexSpace(s) + 1, Len(s)))

\* each part as a string
Strs(parts) == [i \in 1..Len(parts) |-> Str(parts[i])]

\* faulty variant: the words are glued without a separator
RECURSIVE JoinNoSpace(_)
JoinNoSpace(a) == IF a = <<>> THEN "" ELSE a[1] \o JoinNoSpace(Tail(a))

\* strings.Join(a, " ")
RECURSIVE Join(_)
Join(a) ==
  IF a = <<>> THEN ""
  ELSE IF Len(a) = 1 THEN a[1]
  ELSE a[1] \o " " \o Join(Tail(a))

\* ------------------------------------------------------ registry operators
\* faulty variant: a new collection is created already holding the session
RegisterSessionTwice(m, user, sid) ==
  MapSet(m, user, Append(IF user \in DOMAIN m THEN m[user] ELSE <<sid>>, sid))

\* handleConnection: create the collection if absent, then append
RegisterSession(m, user, sid) ==
  MapSet(m, user, Append(IF user \in DOMAIN m THEN m[user] ELSE <<>>, sid))

\* faulty variant: the comparison is inverted
FilterSessionsInverted(sessions, sessionId) ==
  SelectSeq(sessions, LAMBDA x : x = sessionId)

\* faulty variant: nothing is filtered out
FilterSessionsKeepAll(sessions, sessionId) == sessions

\* removeClientSession: the sessions of one user without sessionId
FilterSessions(sessions, sessionId) == SelectSeq(sessions, LAMBDA x : x # sessionId)

\* faulty variant: the scan finds the id in no collection
UsersHoldingNone(m, sessionId) == {}

\* faulty variant: every collection is rewritten whether or not it held the id
UsersHoldingAny(m, sessionId) == DOMAIN m

\* removeClientSession: users whose collection holds sessionId (sessionRemoved)
UsersHolding(m, sessionId) == {u \in DOMAIN m : sessionId \in Range(m[u])}

\* faulty variant: the emptied collection stays in the mapping
DeleteNever(m, user) == m

\* removeClientSession: delete the key of an emptied collection
DeleteIfEmpty(m, user) == IF Len(m[user]) = 0 THEN MapDelete(m, user) ELSE m

\* faulty variant: the snapshot is assigned, not appended to
SnapshotFirstOnly(m, order) == IF order = <<>> THEN <<>> ELSE m[Head(order)]

\* faulty variant: every collection is appended twice
SnapshotAllTwice(m, order) == Flatten(m, order) \o Flatten(m, order)

\* faulty variant: the recipients are every session the server can hold, whether
\* or not the mapping has it when the copy is taken
SnapshotAllSessions(m, order) == [i \in 1..MaxSessions |-> i]

\* broadcastMessage / broadcastSystemMessage: sessionsToMessage
SnapshotAll(m, order) == Flatten(m, order)

\* faulty variant: the excepted user is not skipped
SnapshotExceptNone(m, order, exceptUsername) == Flatten(m, order)

\* broadcastSystemMessageExcept: sessionsToMessage
SnapshotExcept(m, order, exceptUsername) ==
  Flatten(m, SelectSeqKeys(order, exceptUsername))

\* usernames := keys of activeClientsMap
ListIdentities(m) == DOMAIN m

\* the ui bridge is set for every session handleConnection creates
UiIsNil(s) == FALSE

\* bridge.session.Write: a closed channel returns an error and takes nothing
WriteOk(s) == chanOpen[s]

\* bridge.session.Write returns: the channel has room for the bytes, or it is
\* closed and the write fails
WriteReturns(s) == s \notin blocked \/ ~chanOpen[s]

\* faulty variant: the newest output is put in front of the older ones
LogPrepend(sk, s, item) ==
  IF s \in observed /\ WriteOk(s) THEN [sk EXCEPT ![s] = <<item>> \o @] ELSE sk

\* bridge.session.Write(formattedMsg) as the sink log sees it: what an open
\* channel takes comes after all it took before
Log(sk, s, item) ==
  IF s \in observed /\ WriteOk(s) THEN [sk EXCEPT ![s] = Append(@, item)] ELSE sk

\* one call per session of ids, in order
RECURSIVE LogAll(_, _, _)
LogAll(sk, ids, item) ==
  IF ids = <<>> THEN sk ELSE LogAll(Log(sk, Head(ids), item), Tail(ids), item)

\* UpdateUserList(users): the heading, the bridge's own user marked "(you)", then
\* every user of the list that is not the bridge's own, in the list's order
RECURSIVE OtherUserLines(_, _)
OtherUserLines(username, users) ==
  IF users = <<>> THEN ""
  ELSE (IF Head(users) # username THEN "  " \o Head(users) \o "\n" ELSE "")
       \o OtherUserLines(username, Tail(users))
UserListText(username, users) ==
  "Users online:\n  " \o username \o " (you)\n" \o OtherUserLines(username, users)

\* faulty variant: the list is not written
UpdateUserListDropped(sk, s, users, w) == sk

\* session.ui.UpdateUserList(users) written to the session's channel; w is the
\* worker that calls it
UpdateUserList(sk, s, users, w) ==
  Log(sk, s, Msg("userlist", UserOf(s), UserListText(UserOf(s), users), w, 0))

RECURSIVE UpdateEach(_, _, _, _)
UpdateEach(sk, ids, users, w) ==
  IF ids = <<>> THEN sk
  ELSE UpdateEach(UpdateUserList(sk, Head(ids), users, w), Tail(ids), users, w)

\* faulty variant: only the sessions of the first collection are updated
UpdateAllUserListsFirstOnly(sk, m, users, order, w) ==
  UpdateEach(sk, IF order = <<>> THEN <<>> ELSE m[Head(order)], users, w)

\* updateAllUserLists: usernames are the keys in the order one range visits them;
\* every session of every collection, in the order of a second range, is updated
UpdateAllUserLists(sk, m, users, order, w) ==
  UpdateEach(sk, Flatten(m, order), users, w)

\* ------------------------------------------------------------ worker locals
\* msg: the message; snap: sessionsToMessage; todo: the part of it the loop has yet
\* to visit; failed: failedSessionIDs; ret: where the call returns to.
\* Ghost: reg, the mapping when the snapshot was taken; sent, the sessions
\* written to so far, in order; err, those whose write returned an error.
BcNone ==
  [msg |-> NoMsg, snap |-> <<>>, todo |-> <<>>, failed |-> <<>>, ret |-> "none",
   reg |-> EmptyMap, sent |-> <<>>, err |-> {}]
\* target: sessionId; lock: the lock parameter; found: sessionRemoved; user: the
\* key whose collection held the session; ret: where the call returns to
RmNone == [target |-> 0, lock |-> TRUE, ret |-> "none", found |-> FALSE, user |-> ""]

RmLabels == {"rm_lock", "rm_push"}

\* ------------------------------------------------------------ dispatcher
\* no handler: the zero value of the lookup
NoHandler == ""

\* registerCommands: the table NewSSHServer builds
ServerTable ==
  [k \in {"help", "users", "whisper", "clear"} |-> k]

\* the handlers of the dispatcher's test: MockCommandHandler{shouldHandle, shouldError}
MockHandlers == {"mockOk", "mockErr", "mockPass", "mockPassErr"}
MockShouldHandle(h) == h \in {"mockOk", "mockErr"}
MockShouldError(h) == h \in {"mockErr", "mockPassErr"}

\* GetCommandHelp of each handler (the mock's helpText field)
CommandHelp(h) ==
  CASE h = "help" -> "Shows this help message"
    [] h = "users" -> "Shows a list of online users"
    [] h = "whisper" -> "Sends a private message to another user"
    [] h = "clear" -> "Clears the chat screen"
    [] OTHER -> "Test command " \o h

\* GetHelpText: the header, then one line per entry in the order the range over
\* the table visits them
HelpLinesFirstOnly(table, order) ==
  IF order = <<>> THEN ""
  ELSE "/" \o Head(order) \o " - " \o CommandHelp(table[Head(order)]) \o "\n"
RECURSIVE HelpLines(_, _)
HelpLines(table, order) ==
  IF order = <<>> THEN ""
  ELSE "/" \o Head(order) \o " - " \o CommandHelp(table[Head(order)]) \o "\n"
       \o HelpLines(table, Tail(order))
GetHelpText(table, order) == "Available commands:\n" \o HelpLines(table, order)

\* ghost: one call made on behalf of a HandleCommand call
Call(fn, command, args, sender) ==
  [fn |-> fn, command |-> command, args |-> args, sender |-> sender]

\* input, sender: the parameters; command, args: what the line was parsed to;
\* handler: the table's entry; handled, err: the pair returned (err "" is nil);
\* message: the text the handler is about to hand to systemMessageFunc; users: what
\* getUsersFunc returned.  Ghost: calls, the handler and callbacks called so far.
CmNone ==
  [input |-> <<>>, sender |-> "", command |-> "", args |-> <<>>, handler |-> NoHandler,
   handled |-> FALSE, err |-> "", message |-> "", users |-> <<>>, calls |-> <<>>]

\* command := parts[0]; args := strings.Split(parts[1], " ") when there is a parts[1]
ParseCommand(input) ==
  LET parts == SplitN2(Tail(input))
  IN  [command |-> Str(parts[1]),
       args |-> IF Len(parts) > 1 THEN Strs(Split(parts[2])) ELSE <<>>]

\* faulty variant: the keyword is looked up without regard to the case of its
\* first letter
LookupFold(table, command) ==
  LET folded == CASE command = "Help" -> "help"
                  [] command = "Test" -> "test"
                  [] OTHER -> command
  IN  IF folded \in DOMAIN table THEN table[folded] ELSE NoHandler

\* handler, exists := cm.commands[command]
Lookup(table, command) == IF command \in DOMAIN table THEN table[command] ELSE NoHandler

\* CommandManager.HandleCommand up to the call of the handler: a line without the
\* marker returns (false, nil); an unknown keyword returns (true, error); a known
\* one calls its handler with (command, args, sender)
EnterCommand(table, input, sender) ==
  IF ~HasPrefix(input)
    THEN [CmNone EXCEPT !.input = input, !.sender = sender]
    ELSE LET p == ParseCommand(input)
             h == Lookup(table, p.command)
             c == [CmNone EXCEPT !.input = input, !.sender = sender,
                                 !.command = p.command, !.args = p.args]
         IN  IF h = NoHandler
               THEN [c EXCEPT !.handled = TRUE, !.err = "unknown command: " \o p.command]
               ELSE [c EXCEPT !.handler = h,
                              !.calls = <<Call(h, p.command, p.args, sender)>>]

\* the worker is still inside handleConnection's loop body for its session
InConnPhase(s) ==
  \/ pc[s] \in {"reg_push", "join_snap"}
  \/ bc[s].ret = "ui_welcome" /\ pc[s] \in {"bc_deliver", "bc_ret"} \cup RmLabels

Init ==
  /\ activeClientsMap = EmptyMap
  /\ activeClientsMutex = NoHolder
  /\ connOpen = [c \in Conns |-> TRUE]
  /\ chanOpen = [s \in Sessions |-> FALSE]
  /\ pushes = 0
  /\ pc = [w \in Workers |-> IF w = Prober THEN "idle" ELSE "none"]
  /\ bc = [w \in Workers |-> BcNone]
  /\ rm = [w \in Workers |-> RmNone]
  /\ usernames = [s \in Sessions |-> {}]
  /\ lines = 0
  /\ live = {}
  /\ probes = 0
  /\ commands = ServerTable
  /\ cm = [w \in Workers |-> CmNone]
  /\ cmds = 0
  /\ sink = [s \in Sessions |-> <<>>]
  /\ observed = {}
  /\ limit = [lines |-> MaxLines, cmds |-> MaxCmds, closes |-> MaxSessions]
  /\ blocked = {}

\* ------------------------------------------------------- handleConnection
\* a channel request of the session's connection is accepted: new bridge, new id;
\* Lock(); append the session to its user's collection
Register(s) ==
  /\ pc[s] = "none"
  /\ connOpen[ConnOf(s)]
  /\ \A x \in Sessions : ConnOf(x) = ConnOf(s) => ~InConnPhase(x)
  /\ activeClientsMutex = NoHolder
  /\ activeClientsMutex' = s
  /\ chanOpen' = [chanOpen EXCEPT ![s] = TRUE]
  /\ activeClientsMap' = RegisterSession(activeClientsMap, UserOf(s), s)
  /\ pc' = [pc EXCEPT ![s] = "reg_push"]
  /\ UNCHANGED <<connOpen, pushes, bc, rm, usernames, lines, live, probes, cmdVars>>

\* updateAllUserLists(); Unlock()
RegPush(s) ==
  /\ pc[s] = "reg_push"
  /\ \A t \in AllIds(activeClientsMap) : WriteReturns(t)
  /\ pushes' = pushes + 1
  /\ \E users \in KeyOrders(DOMAIN activeClientsMap),
        order \in KeyOrders(DOMAIN activeClientsMap) :
       sink' = UpdateAllUserLists(sink, activeClientsMap, users, order, s)
  /\ activeClientsMutex' = NoHolder
  /\ live' = live \cup {s}
  /\ pc' = [pc EXCEPT ![s] = "join_snap"]
  /\ UNCHANGED <<activeClientsMap, connOpen, chanOpen, bc, rm,
                 usernames, lines, probes, cmdVarsButSink>>

\* ---------------------------------------------------------- the broadcasts
StartBroadcast(w, msg, sessionsToMessage, ret) ==
  /\ bc' = [bc EXCEPT ![w] = [msg |-> msg, snap |-> sessionsToMessage,
                              todo |-> sessionsToMessage, failed |-> <<>>, ret |-> ret,
                              reg |-> activeClientsMap, sent |-> <<>>, err |-> {}]]
  /\ pc' = [pc EXCEPT ![w] = "bc_deliver"]

\* broadcastSystemMessageExcept("<user> has joined the chat", user): the snapshot
BroadcastSystemExceptSnap(s) ==
  /\ pc[s] = "join_snap"
  /\ activeClientsMutex = NoHolder
  /\ \E order \in KeyOrders(DOMAIN activeClientsMap) :
       StartBroadcast(s, SystemMsg("joined", UserOf(s), s),
                      SnapshotExcept(activeClientsMap, order, UserOf(s)), "ui_welcome")
  /\ UNCHANGED <<activeClientsMap, activeClientsMutex, connOpen, chanOpen,
                 pushes, rm, usernames, lines, live, probes, cmdVars>>

\* Start: ReadLine yields a line; the input handler finds it is no command
\* (HandleCommand returns false, nil) and calls broadcastMessage(user, line),
\* which takes its snapshot
SubmitLine(s) ==
  /\ pc[s] = "active"
  /\ chanOpen[s]
  /\ lines < limit.lines
  /\ activeClientsMutex = NoHolder
  /\ lines' = lines + 1
  /\ \E text \in Texts, order \in KeyOrders(DOMAIN activeClientsMap) :
       StartBroadcast(s, ChatMsg(UserOf(s), text, s, lines + 1),
                      SnapshotAll(activeClientsMap, order), "active")
  /\ UNCHANGED <<activeClientsMap, activeClientsMutex, connOpen, chanOpen,
                 pushes, rm, usernames, live, probes, cmdVars>>

\* broadcastSystemMessage("<user> has left the chat"): the snapshot
BroadcastSystemSnap(s) ==
  /\ pc[s] = "left_snap"
  /\ activeClientsMutex = NoHolder
  /\ \E order \in KeyOrders(DOMAIN activeClientsMap) :
       StartBroadcast(s, SystemMsg("left", UserOf(s), s),
                      SnapshotAll(activeClientsMap, order), "closed")
  /\ UNCHANGED <<activeClientsMap, activeClientsMutex, connOpen, chanOpen,
                 pushes, rm, usernames, lines, live, probes, cmdVars>>

\* faulty variant: the loop stops at the first write that fails
DeliverAbortOnError(b) ==
  LET cs == Head(b.todo) IN
  IF WriteOk(cs)
    THEN [b EXCEPT !.todo = Tail(@), !.sent = Append(@, cs)]
    ELSE [b EXCEPT !.todo = <<>>, !.sent = Append(@, cs), !.err = @ \cup {cs}]

\* one pass of the delivery loop: a nil bridge is noted as failed; otherwise
\* AddMessage / AddSystemMessage writes to the recipient's channel and drops the
\* write's error
DeliverNext(b) ==
  LET cs == Head(b.todo) IN
  IF UiIsNil(cs)
    THEN [b EXCEPT !.todo = Tail(@), !.failed = Append(@, cs)]
    ELSE [b EXCEPT !.todo = Tail(@), !.sent = Append(@, cs),
                   !.err = IF WriteOk(cs) THEN @ ELSE @ \cup {cs}]

BroadcastDeliver(w) ==
  /\ pc[w] = "bc_deliver"
  /\ bc[w].todo # <<>>
  /\ UiIsNil(Head(bc[w].todo)) \/ WriteReturns(Head(bc[w].todo))
  /\ bc' = [bc EXCEPT ![w] = DeliverNext(bc[w])]
  /\ sink' = IF UiIsNil(Head(bc[w].todo)) THEN sink
                                          ELSE Log(sink, Head(bc[w].todo), bc[w].msg)
  /\ UNCHANGED <<activeClientsMap, activeClientsMutex, connOpen, chanOpen,
                 pushes, pc, rm, usernames, lines, live, probes, cmdVarsButSink>>

\* after the pass: removeClientSession(id, true) for each failed id, then return
BroadcastReap(w) ==
  /\ pc[w] = "bc_deliver"
  /\ bc[w].todo = <<>>
  /\ IF bc[w].failed = <<>>
       THEN /\ pc' = [pc EXCEPT ![w] = "bc_ret"]
            /\ UNCHANGED <<bc, rm>>
       ELSE /\ rm' = [rm EXCEPT ![w] = [target |-> Head(bc[w].failed), lock |-> TRUE,
                                        ret |-> "bc_deliver", found |-> FALSE, user |-> ""]]
            /\ bc' = [bc EXCEPT ![w].failed = Tail(@)]
            /\ pc' = [pc EXCEPT ![w] = "rm_lock"]
  /\ UNCHANGED <<activeClientsMap, activeClientsMutex, connOpen, chanOpen,
                 pushes, usernames, lines, live, probes, cmdVars>>

\* the broadcast call returns to its caller
BroadcastReturn(w) ==
  /\ pc[w] = "bc_ret"
  /\ pc' = [pc EXCEPT ![w] = bc[w].ret]
  /\ bc' = [bc EXCEPT ![w] = BcNone]
  /\ UNCHANGED <<activeClientsMap, activeClientsMutex, connOpen, chanOpen,
                 pushes, rm, usernames, lines, live, probes, cmdVars>>

\* -------------------------------------------------------- handleUISession
\* AddSystemMessage("Welcome to Group SSH Chat!");
\* AddSystemMessage("You are logged in as <user>")
UiWelcome(s) ==
  /\ pc[s] = "ui_welcome"
  /\ WriteReturns(s)
  /\ sink' = Log(Log(sink, s, SystemMsg("Welcome to Group SSH Chat!", UserOf(s), s)),
                 s, SystemMsg("You are logged in as " \o UserOf(s), UserOf(s), s))
  /\ pc' = [pc EXCEPT ![s] = "ui_names"]
  /\ UNCHANGED <<activeClientsMap, activeClientsMutex, connOpen, chanOpen,
                 pushes, bc, rm, usernames, lines, live, probes, cmdVarsButSink>>

\* Lock(); usernames := keys of the mapping; Unlock()
UiNames(s) ==
  /\ pc[s] = "ui_names"
  /\ activeClientsMutex = NoHolder
  /\ usernames' = [usernames EXCEPT ![s] = ListIdentities(activeClientsMap)]
  /\ pc' = [pc EXCEPT ![s] = "ui_list"]
  /\ UNCHANGED <<activeClientsMap, activeClientsMutex, connOpen, chanOpen,
                 pushes, bc, rm, lines, live, probes, cmdVars>>

\* clientsess.ui.UpdateUserList(usernames); then ui.Start()
UiList(s) ==
  /\ pc[s] = "ui_list"
  /\ WriteReturns(s)
  /\ \E users \in KeyOrders(usernames[s]) : sink' = UpdateUserList(sink, s, users, s)
  /\ usernames' = [usernames EXCEPT ![s] = {}]
  /\ pc' = [pc EXCEPT ![s] = "active"]
  /\ UNCHANGED <<activeClientsMap, activeClientsMutex, connOpen, chanOpen,
                 pushes, bc, rm, lines, live, probes, cmdVarsButSink>>

\* Start: ReadLine fails (EOF or read error) and the loop breaks; deferred:
\* clientsess.connection.Close(), then removeClientSession(id, true)
ReadError(s) ==
  /\ pc[s] = "active"
  /\ ~chanOpen[s]
  /\ connOpen' = [connOpen EXCEPT ![ConnOf(s)] = FALSE]
  /\ chanOpen' = [x \in Sessions |-> chanOpen[x] /\ ConnOf(x) # ConnOf(s)]
  /\ rm' = [rm EXCEPT ![s] = [target |-> s, lock |-> TRUE, ret |-> "left_snap",
                              found |-> FALSE, user |-> ""]]
  /\ pc' = [pc EXCEPT ![s] = "rm_lock"]
  /\ UNCHANGED <<activeClientsMap, activeClientsMutex, pushes, bc,
                 usernames, lines, live, probes, cmdVars>>

\* ---------------------------------------------------- removeClientSession
\* faulty variant: the scan and the store run without the lock being taken
LockSkipped(lock, w, holder) == holder

\* if lock { Lock() }: who holds the mutex while the call scans the mapping
LockIfAsked(lock, w, holder) == IF lock THEN w ELSE holder

\* faulty variant: the lock is kept when the call returns
DeferredUnlockNever(lock, holder) == holder

\* if lock { Lock(); defer Unlock() }: who holds the mutex once the call has
\* returned
DeferredUnlock(lock, holder) == IF lock THEN NoHolder ELSE holder

\* Lock (when asked to); scan the mapping; store the filtered collection of the
\* user that held the session, or find nothing and return
RmLock(w) ==
  /\ pc[w] = "rm_lock"
  /\ rm[w].lock => activeClientsMutex = NoHolder
  /\ IF UsersHolding(activeClientsMap, rm[w].target) = {}
       THEN /\ pc' = [pc EXCEPT ![w] = rm[w].ret]
            /\ live' = live \ {rm[w].target}
            /\ UNCHANGED <<activeClientsMap, activeClientsMutex, rm>>
       ELSE /\ \E user \in UsersHolding(activeClientsMap, rm[w].target) :
                 /\ activeClientsMap' =
                      MapSet(activeClientsMap, user,
                             FilterSessions(activeClientsMap[user], rm[w].target))
                 /\ rm' = [rm EXCEPT ![w].found = TRUE, ![w].user = user]
            /\ activeClientsMutex' = LockIfAsked(rm[w].lock, w, activeClientsMutex)
            /\ pc' = [pc EXCEPT ![w] = "rm_push"]
            /\ UNCHANGED live
  /\ UNCHANGED <<connOpen, chanOpen, pushes, bc, usernames, lines, probes, cmdVars>>

\* if len(activeClientsMap[user]) == 0 { delete(activeClientsMap, user) };
\* updateAllUserLists(); break; deferred Unlock()
RmPush(w) ==
  /\ pc[w] = "rm_push"
  /\ \A t \in AllIds(activeClientsMap) : WriteReturns(t)
  /\ activeClientsMap' = DeleteIfEmpty(activeClientsMap, rm[w].user)
  /\ pushes' = pushes + 1
  /\ \E users \in KeyOrders(DOMAIN activeClientsMap'),
        order \in KeyOrders(DOMAIN activeClientsMap') :
       sink' = UpdateAllUserLists(sink, activeClientsMap', users, order, w)
  /\ activeClientsMutex' = DeferredUnlock(rm[w].lock, activeClientsMutex)
  /\ live' = live \ {rm[w].target}
  /\ pc' = [pc EXCEPT ![w] = rm[w].ret]
  /\ UNCHANGED <<connOpen, chanOpen, bc, rm, usernames, lines, probes,
                 cmdVarsButSink>>

\* ------------------------------------------------------- command handling
\* command lines a client types
CmdLines ==
  { <<"/", "help">>, <<"/", "Help">>, <<"/", "users">>, <<"/", "clear">>,
    <<"/", "whisper">>, <<"/", "whisper", " ", "bob">>,
    <<"/", "whisper", " ", "bob", " ", "hi">>,
    <<"/", "whisper", " ", "alice", " ", "hi", " ", "yo">>,
    <<"/", "whisper", " ", "carol", " ", "hi">>,
    <<"/", "clear", " ", "now">>, <<"/", "whisper", " ", "bob", " ">> }

\* lines a client types: command lines, a line of chat, an empty line
InputLines == CmdLines \cup {<<"hi">>, <<>>}

\* what a command writes to a channel.  kind names the writer: "reply" is
\* AddSystemMessage called by a systemMessageFunc, "whisper" AddSystemMessage called
\* by whisperFunc, "error" AddSystemMessage called by the input handler, "clear"
\* ClearScreen; from is the session that typed the command
CmdMsg(kind, text, s) == Msg(kind, "", text, s, 0)

\* faulty variant: whatever the handler says, the line counts as handled
ReturnHandled(c, handled, err) == [c EXCEPT !.handled = TRUE, !.err = err]

\* faulty variant: the line counts as not handled
ReturnUnhandled(c, handled, err) == [c EXCEPT !.handled = FALSE, !.err = err]

\* return handler.HandleCommand(command, args, sender): the handler's pair is
\* the dispatcher's
ReturnOf(c, handled, err) == [c EXCEPT !.handled = handled, !.err = err]

\* faulty variant: a recipient alone is enough
TooFewArgsOne(args) == Len(args) < 1

\* WhisperCommand.HandleCommand: len(args) < 2
TooFewArgs(args) == Len(args) < 2

\* the handler's own steps up to its first callback.  help: GetHelpText();
\* whisper: the len(args) < 2 test; the mock returns at once
StartHandler(c, order) ==
  CASE c.handler = "help" -> [c EXCEPT !.message = GetHelpText(commands, order)]
    [] c.handler = "whisper" /\ TooFewArgs(c.args) ->
         [c EXCEPT !.message = "Usage: /whisper <username> <message>"]
    [] c.handler \in MockHandlers ->
         ReturnOf(c, MockShouldHandle(c.handler),
                  IF MockShouldError(c.handler) THEN "mock error" ELSE "")
    [] OTHER -> c

\* the callback the handler calls first, or the return of HandleCommand
FirstStep(c) ==
  CASE c.handler = "help" -> "cmd_msg"
    [] c.handler = "users" -> "cmd_users"
    [] c.handler = "whisper" -> IF TooFewArgs(c.args) THEN "cmd_msg" ELSE "cmd_exists"
    [] c.handler = "clear" -> "cmd_clear"
    [] OTHER -> "cmd_done"

\* Start: line, err := bridge.term.ReadLine() yields a line; cm[s].input holds it
ReadLine(s) ==
  /\ pc[s] = "active"
  /\ chanOpen[s]
  /\ cmds < limit.cmds
  /\ cmds' = cmds + 1
  /\ \E input \in InputLines : cm' = [cm EXCEPT ![s] = [CmNone EXCEPT !.input = input]]
  /\ pc' = [pc EXCEPT ![s] = "line"]
  /\ UNCHANGED <<activeClientsMap, activeClientsMutex, connOpen, chanOpen, pushes,
                 bc, rm, usernames, lines, live, probes, commands, sink, observed, blocked, limit>>

\* faulty variant: the empty line too is handed to the input handler
InputFuncCalledAlways(line) == TRUE

\* Start: bridge.ui.inputFunc != nil && line != ""  (the input handler is always set)
InputFuncCalled(line) == line # <<>>

\* Start: the line read is handed to the input handler unless it is empty; the
\* input handler calls commandManager.HandleCommand(message, conn.User())
SubmitCommand(s) ==
  /\ pc[s] = "line"
  /\ IF InputFuncCalled(cm[s].input)
       THEN \E order \in KeyOrders(DOMAIN commands) :
              LET c == StartHandler(EnterCommand(commands, cm[s].input, UserOf(s)), order)
              IN  /\ cm' = [cm EXCEPT ![s] = c]
                  /\ pc' = [pc EXCEPT ![s] = FirstStep(c)]
       ELSE /\ cm' = [cm EXCEPT ![s] = CmNone]
            /\ pc' = [pc EXCEPT ![s] = "active"]
  /\ UNCHANGED <<activeClientsMap, activeClientsMutex, connOpen, chanOpen, pushes,
                 bc, rm, usernames, lines, live, probes, commands, cmds, sink, observed, blocked,
                 limit>>

\* UsersCommand: the text built from what getUsersFunc returned
RECURSIVE UserLines(_)
UserLines(users) ==
  IF users = <<>> THEN "" ELSE "- " \o Head(users) \o "\n" \o UserLines(Tail(users))
\* faulty variant: the count and the listing even when there is no user
UsersTextNoNotice(users) ==
  "Online users (" \o ToString(Len(users)) \o "):\n" \o UserLines(users)
UsersText(users) ==
  IF Len(users) = 0
    THEN "No users are currently online"
    ELSE "Online users (" \o ToString(Len(users)) \o "):\n" \o UserLines(users)

\* getUsersFunc: Lock(); the keys in the order the range visits them; Unlock();
\* then UsersCommand builds its text
GetUsersFunc(s) ==
  /\ pc[s] = "cmd_users"
  /\ activeClientsMutex = NoHolder
  /\ \E order \in KeyOrders(DOMAIN activeClientsMap) :
       cm' = [cm EXCEPT ![s].users = order, ![s].message = UsersText(order),
                        ![s].calls = Append(@, Call("getUsersFunc", "", <<>>, ""))]
  /\ pc' = [pc EXCEPT ![s] = "cmd_msg"]
  /\ UNCHANGED <<activeClientsMap, activeClientsMutex, connOpen, chanOpen, pushes,
                 bc, rm, usernames, lines, live, probes, commands, cmds, sink, observed, blocked, limit>>

\* the systemMessageFunc of help, users, whisper and clear: Lock(); for every
\* collection, for every session of it, AddSystemMessage(message); Unlock(); then
\* the handler returns (true, nil)
SystemMessageFunc(s) ==
  /\ pc[s] = "cmd_msg"
  /\ activeClientsMutex = NoHolder
  /\ \E order \in KeyOrders(DOMAIN activeClientsMap) :
       sink' = LogAll(sink, SnapshotAll(activeClientsMap, order),
                      CmdMsg("reply", cm[s].message, s))
  /\ cm' = [cm EXCEPT ![s] =
              ReturnOf([cm[s] EXCEPT !.calls = Append(@, Call("systemMessageFunc", "",
                                                              <<cm[s].message>>, ""))],
                       TRUE, "")]
  /\ pc' = [pc EXCEPT ![s] = "cmd_done"]
  /\ UNCHANGED <<activeClientsMap, activeClientsMutex, connOpen, chanOpen, pushes,
                 bc, rm, usernames, lines, live, probes, commands, cmds, observed, blocked, limit>>

\* faulty variant: every name is taken to be registered
UserExistsAlways(m, username) == TRUE

\* _, exists := ss.activeClientsMap[username]
UserExists(m, username) == username \in DOMAIN m

\* userExistsFunc(recipient): Lock(); _, exists := activeClientsMap[username];
\* Unlock(); when it does not exist the handler builds the not-found notice
UserExistsFunc(s) ==
  /\ pc[s] = "cmd_exists"
  /\ activeClientsMutex = NoHolder
  /\ LET recipient == cm[s].args[1]
         exists == UserExists(activeClientsMap, recipient)
     IN  /\ cm' = [cm EXCEPT ![s].message =
                                IF exists THEN @ ELSE "User '" \o recipient \o "' not found",
                             ![s].calls = Append(@, Call("userExistsFunc", "",
                                                         <<recipient>>, ""))]
         /\ pc' = [pc EXCEPT ![s] = IF exists THEN "cmd_whisper" ELSE "cmd_msg"]
  /\ UNCHANGED <<activeClientsMap, activeClientsMutex, connOpen, chanOpen, pushes,
                 bc, rm, usernames, lines, live, probes, commands, cmds, sink, observed, blocked, limit>>

\* ss.activeClientsMap[username]: nil when the key is absent
SessionsOf(m, user) == IF user \in DOMAIN m THEN m[user] ELSE <<>>

\* whisperFunc(sender, recipient, strings.Join(args[1:], " ")): Lock(); "To ..." to
\* the sender's sessions, "From ..." to the recipient's; Unlock(); the handler
\* returns (true, nil)
WhisperFunc(s) ==
  /\ pc[s] = "cmd_whisper"
  /\ activeClientsMutex = NoHolder
  /\ LET sender == cm[s].sender
         recipient == cm[s].args[1]
         message == Join(Tail(cm[s].args))
     IN  /\ sink' = LogAll(LogAll(sink, SessionsOf(activeClientsMap, sender),
                                  CmdMsg("whisper", "To " \o recipient \o ": " \o message, s)),
                           SessionsOf(activeClientsMap, recipient),
                           CmdMsg("whisper", "From " \o sender \o ": " \o message, s))
         /\ cm' = [cm EXCEPT ![s] =
                     ReturnOf([cm[s] EXCEPT !.calls = Append(@, Call("whisperFunc", "",
                                                       <<recipient, message>>, sender))],
                              TRUE, "")]
  /\ pc' = [pc EXCEPT ![s] = "cmd_done"]
  /\ UNCHANGED <<activeClientsMap, activeClientsMutex, connOpen, chanOpen, pushes,
                 bc, rm, usernames, lines, live, probes, commands, cmds, observed, blocked, limit>>

\* clearFunc: Lock(); for every collection, for every session of it,
\* ClearScreen(); Unlock(); the handler goes on to systemMessageFunc("Screen cleared")
ClearFunc(s) ==
  /\ pc[s] = "cmd_clear"
  /\ activeClientsMutex = NoHolder
  /\ \E order \in KeyOrders(DOMAIN activeClientsMap) :
       sink' = LogAll(sink, SnapshotAll(activeClientsMap, order), CmdMsg("clear", "", s))
  /\ cm' = [cm EXCEPT ![s].message = "Screen cleared",
                      ![s].calls = Append(@, Call("clearFunc", "", <<>>, ""))]
  /\ pc' = [pc EXCEPT ![s] = "cmd_msg"]
  /\ UNCHANGED <<activeClientsMap, activeClientsMutex, connOpen, chanOpen, pushes,
                 bc, rm, usernames, lines, live, probes, commands, cmds, observed, blocked, limit>>

\* faulty variant: the error is not looked at
InputOutcomeNoError(handled, err) == IF handled THEN "done" ELSE "chat"

\* faulty variant: a line that made an error is sent on as chat
InputOutcomeErrorIsChat(handled, err) == IF handled /\ err = "" THEN "done" ELSE "chat"

\* the input handler: if err != nil { AddSystemMessage; return }; if !handled
\* { broadcastMessage }
InputOutcome(handled, err) ==
  IF err # "" THEN "error" ELSE IF handled THEN "done" ELSE "chat"

\* HandleCommand has returned to the input handler: an error is shown to the
\* session that typed the line; a line that was not handled is broadcast
InputHandlerReturn(s) ==
  /\ pc[s] = "cmd_done"
  /\ cm' = [cm EXCEPT ![s] = CmNone]
  /\ IF InputOutcome(cm[s].handled, cm[s].err) = "error"
       THEN /\ sink' = Log(sink, s, CmdMsg("error", "Error: " \o cm[s].err, s))
            /\ pc' = [pc EXCEPT ![s] = "active"]
            /\ UNCHANGED bc
       ELSE IF InputOutcome(cm[s].handled, cm[s].err) = "done"
         THEN /\ pc' = [pc EXCEPT ![s] = "active"]
              /\ UNCHANGED <<bc, sink>>
         ELSE /\ activeClientsMutex = NoHolder
              /\ \E order \in KeyOrders(DOMAIN activeClientsMap) :
                   StartBroadcast(s, ChatMsg(UserOf(s), Str(cm[s].input), s, lines + cmds),
                                  SnapshotAll(activeClientsMap, order), "active")
              /\ UNCHANGED sink
  /\ UNCHANGED <<activeClientsMap, activeClientsMutex, connOpen, chanOpen, pushes,
                 rm, usernames, lines, live, probes, commands, cmds, observed, blocked, limit>>

\* ------------------------------------------------------------ environment
\* channels of sessions that are closed
ClosedChannels == {x \in Sessions : pc[x] # "none" /\ ~chanOpen[x]}

\* the client closes the session's channel
ClientClose(s) ==
  /\ pc[s] # "none"
  /\ chanOpen[s]
  /\ Cardinality(ClosedChannels) < limit.closes
  /\ chanOpen' = [chanOpen EXCEPT ![s] = FALSE]
  /\ UNCHANGED <<activeClientsMap, activeClientsMutex, connOpen, pushes,
                 pc, bc, rm, usernames, lines, live, probes, cmdVars>>

\* --------------------------------------------------------- registry harness
\* an id uuid.New() never returns
NeverId == MaxSessions + 1

\* ids that are not in the registry and never will be: never registered, or
\* registered once and taken out again
AbsentIds ==
  {NeverId} \cup {s \in Sessions : pc[s] \in {"left_snap", "closed"}
                                   \/ (bc[s].ret = "closed" /\ pc[s] \in {"bc_deliver", "bc_ret"})}

\* a direct call removeClientSession(id, true) on an absent id
ProbeRemove(id) ==
  /\ pc[Prober] \in {"idle", "probe_ret"}
  /\ probes < MaxProbes
  /\ id \in AbsentIds
  /\ probes' = probes + 1
  /\ rm' = [rm EXCEPT ![Prober] = [target |-> id, lock |-> TRUE, ret |-> "probe_ret",
                                   found |-> FALSE, user |-> ""]]
  /\ pc' = [pc EXCEPT ![Prober] = "rm_lock"]
  /\ UNCHANGED <<activeClientsMap, activeClientsMutex, connOpen, chanOpen,
                 pushes, bc, usernames, lines, live, cmdVars>>

\* --------------------------------------------------------- specifications
Next ==
  \/ \E s \in Sessions :
       \/ Register(s)
       \/ RegPush(s)
       \/ BroadcastSystemExceptSnap(s)
       \/ BroadcastSystemSnap(s)
       \/ UiWelcome(s)
       \/ UiNames(s)
       \/ UiList(s)
       \/ SubmitLine(s)
       \/ ReadError(s)
       \/ ClientClose(s)
  \/ \E w \in Workers :
       \/ BroadcastDeliver(w)
       \/ BroadcastReap(w)
       \/ BroadcastReturn(w)
       \/ RmLock(w)
       \/ RmPush(w)

Spec == Init /\ [][Next]_vars

\* the next step of the goroutines that serve session w: what the server does,
\* not what the client does (open a channel, type a line, close the channel)
ServerStep(w) ==
  \/ RegPush(w)
  \/ BroadcastSystemExceptSnap(w)
  \/ BroadcastSystemSnap(w)
  \/ UiWelcome(w)
  \/ UiNames(w)
  \/ UiList(w)
  \/ ReadError(w)
  \/ BroadcastDeliver(w)
  \/ BroadcastReap(w)
  \/ BroadcastReturn(w)
  \/ RmLock(w)
  \/ RmPush(w)

\* the server as New leaves it; in a run one client closes its channel
InitLeaving ==
  /\ activeClientsMap = EmptyMap
  /\ activeClientsMutex = NoHolder
  /\ connOpen = [c \in Conns |-> TRUE]
  /\ chanOpen = [s \in Sessions |-> FALSE]
  /\ pushes = 0
  /\ pc = [w \in Workers |-> IF w = Prober THEN "idle" ELSE "none"]
  /\ bc = [w \in Workers |-> BcNone]
  /\ rm = [w \in Workers |-> RmNone]
  /\ usernames = [s \in Sessions |-> {}]
  /\ lines = 0
  /\ live = {}
  /\ probes = 0
  /\ commands = ServerTable
  /\ cm = [w \in Workers |-> CmNone]
  /\ cmds = 0
  /\ sink = [s \in Sessions |-> <<>>]
  /\ observed = {}
  /\ limit = [lines |-> MaxLines, cmds |-> 0, closes |-> MaxCloses]
  /\ blocked = {}

\* the Go scheduler runs every goroutine that can run, and a goroutine waiting
\* for activeClientsMutex gets it once it stays free
SpecFair ==
  /\ InitLeaving
  /\ [][Next]_vars
  /\ \A w \in Sessions : WF_vars(ServerStep(w))

\* the server as New leaves it; the client of one session reads nothing, so that
\* the session's channel takes no write
InitBlocking ==
  /\ activeClientsMap = EmptyMap
  /\ activeClientsMutex = NoHolder
  /\ connOpen = [c \in Conns |-> TRUE]
  /\ chanOpen = [s \in Sessions |-> FALSE]
  /\ pushes = 0
  /\ pc = [w \in Workers |-> IF w = Prober THEN "idle" ELSE "none"]
  /\ bc = [w \in Workers |-> BcNone]
  /\ rm = [w \in Workers |-> RmNone]
  /\ usernames = [s \in Sessions |-> {}]
  /\ lines = 0
  /\ live = {}
  /\ probes = 0
  /\ commands = ServerTable
  /\ cm = [w \in Workers |-> CmNone]
  /\ cmds = 0
  /\ sink = [s \in Sessions |-> <<>>]
  /\ observed = {}
  /\ limit = [lines |-> MaxLines, cmds |-> 0, closes |-> MaxCloses]
  /\ \E t \in Sessions : blocked = {t}

SpecBlocking == InitBlocking /\ [][Next]_vars

\* the program plus direct removeClientSession calls on absent ids
NextProbe == Next \/ \E id \in Sessions \cup {NeverId} : ProbeRemove(id)

SpecProbe == Init /\ [][NextProbe]_vars

\* --------------------------------------------------- the server at work
\* the mapping after the sessions of R registered in the order of their ids
RECURSIVE RegistryOf(_)
RegistryOf(R) ==
  IF R = {} THEN EmptyMap
  ELSE LET last == CHOOSE s \in R : \A x \in R : x <= s
       IN  RegisterSession(RegistryOf(R \ {last}), UserOf(last), last)

\* a run has either chat lines or a command line
ServingLimits ==
  { [lines |-> MaxChatLines, cmds |-> 0, closes |-> MaxCloses],
    [lines |-> 0, cmds |-> MaxCmds, closes |-> MaxCloses] }

\* some sessions have registered and their workers are in ui.Start(); what is
\* written to their channels from now on is logged
InitServing ==
  \E R \in (SUBSET Sessions) \ {{}} :
    /\ activeClientsMap = RegistryOf(R)
    /\ activeClientsMutex = NoHolder
    /\ connOpen = [c \in Conns |-> TRUE]
    /\ chanOpen = [s \in Sessions |-> s \in R]
    /\ pushes = 0
    /\ pc = [w \in Workers |-> IF w \in R THEN "active"
                               ELSE IF w = Prober THEN "idle" ELSE "none"]
    /\ bc = [w \in Workers |-> BcNone]
    /\ rm = [w \in Workers |-> RmNone]
    /\ usernames = [s \in Sessions |-> {}]
    /\ lines = 0
    /\ live = R
    /\ probes = 0
    /\ commands = ServerTable
    /\ cm = [w \in Workers |-> CmNone]
    /\ cmds = 0
    /\ sink = [s \in Sessions |-> <<>>]
    /\ \E t \in R : observed = {t}
    /\ limit \in ServingLimits
    /\ blocked = {}

\* lines, commands and departures of registered sessions
NextServing ==
  \/ \E s \in Sessions :
       \/ SubmitLine(s)
       \/ ReadLine(s)
       \/ SubmitCommand(s)
       \/ GetUsersFunc(s)
       \/ SystemMessageFunc(s)
       \/ UserExistsFunc(s)
       \/ WhisperFunc(s)
       \/ ClearFunc(s)
       \/ InputHandlerReturn(s)
       \/ ClientClose(s)
       \/ ReadError(s)
       \/ BroadcastSystemSnap(s)
  \/ \E w \in Workers :
       \/ BroadcastDeliver(w)
       \/ BroadcastReap(w)
       \/ BroadcastReturn(w)
       \/ RmLock(w)
       \/ RmPush(w)

SpecServing == InitServing /\ [][NextServing]_vars

\* ---------------------------------------------- joining and leaving, logged
\* what a run may hold: sessions that come and go, or sessions that come and a
\* line of chat
JoiningLimits ==
  { [lines |-> 0, cmds |-> 0, closes |-> MaxCloses],
    [lines |-> MaxLines, cmds |-> 0, closes |-> 0] }

\* the server as New leaves it, with the sink of one session logged
InitJoining ==
  /\ activeClientsMap = EmptyMap
  /\ activeClientsMutex = NoHolder
  /\ connOpen = [c \in Conns |-> TRUE]
  /\ chanOpen = [s \in Sessions |-> FALSE]
  /\ pushes = 0
  /\ pc = [w \in Workers |-> IF w = Prober THEN "idle" ELSE "none"]
  /\ bc = [w \in Workers |-> BcNone]
  /\ rm = [w \in Workers |-> RmNone]
  /\ usernames = [s \in Sessions |-> {}]
  /\ lines = 0
  /\ live = {}
  /\ probes = 0
  /\ commands = ServerTable
  /\ cm = [w \in Workers |-> CmNone]
  /\ cmds = 0
  /\ sink = [s \in Sessions |-> <<>>]
  /\ \E t \in Sessions : observed = {t}
  /\ limit \in JoiningLimits
  /\ blocked = {}

SpecJoining == InitJoining /\ [][Next]_vars

\* ------------------------------------------------- the dispatcher alone
\* the keywords the dispatcher's test registers
TestNames == {"test", "error"}

\* lines the test hands to HandleCommand: without the marker, with the marker
\* elsewhere, known and unknown keywords, single, trailing and double spaces, a tab
TestLines ==
  { <<>>, <<"test">>, <<"not", " ", "a", " ", "command">>,
    <<"test", " ", "/", "test">>, <<" ", "/", "test">>,
    <<"/">>, <<"/", "test">>, <<"/", "te", "st">>, <<"/", "Test">>,
    <<"/", "error">>, <<"/", "unknown">>, <<"/", "/", "test">>,
    <<"/", " ", "test">>,
    <<"/", "test", " ", "arg1">>,
    <<"/", "test", " ", "arg1", " ", "arg2">>,
    <<"/", "test", " ">>,
    <<"/", "test", " ", " ", "arg1">>,
    <<"/", "test", " ", "arg1", " ", " ", "arg2">>,
    <<"/", "test", "\t", "arg1">> }

TestSenders == {"sender", "alice"}

\* what the stub getUsersFunc of the users test returns: some of its users, in
\* some order, or none
TestUsers == {"user1", "user2", "user3"}
TestUserLists == UNION {KeyOrders(U) : U \in SUBSET TestUsers}

\* NewCommandManager: a CommandManager with an empty table, no session
InitDispatch ==
  /\ activeClientsMap = EmptyMap
  /\ activeClientsMutex = NoHolder
  /\ connOpen = [c \in Conns |-> TRUE]
  /\ chanOpen = [s \in Sessions |-> FALSE]
  /\ pushes = 0
  /\ pc = [w \in Workers |-> IF w = Prober THEN "idle" ELSE "none"]
  /\ bc = [w \in Workers |-> BcNone]
  /\ rm = [w \in Workers |-> RmNone]
  /\ usernames = [s \in Sessions |-> {}]
  /\ lines = 0
  /\ live = {}
  /\ probes = 0
  /\ commands = EmptyMap
  /\ cm = [w \in Workers |-> CmNone]
  /\ cmds = 0
  /\ sink = [s \in Sessions |-> <<>>]
  /\ observed = {}
  /\ limit = [lines |-> 0, cmds |-> MaxCmds, closes |-> 0]
  /\ blocked = {}

\* cm.HandleCommand(input, sender) called directly: the call runs up to its return
TestHandleCommand(input, sender) ==
  /\ pc[Prober] = "idle"
  /\ cmds < limit.cmds
  /\ cmds' = cmds + 1
  /\ \E order \in KeyOrders(DOMAIN commands) :
       LET c == StartHandler(EnterCommand(commands, input, sender), order)
       IN  /\ cm' = [cm EXCEPT ![Prober] = c]
           /\ pc' = [pc EXCEPT ![Prober] = FirstStep(c)]
  /\ UNCHANGED <<activeClientsMap, activeClientsMutex, connOpen, chanOpen, pushes,
                 bc, rm, usernames, lines, live, probes, commands, sink, observed, blocked, limit>>

\* cm.RegisterCommand(name, handler): the entry is set, replacing any earlier one
TestRegisterCommand(name, handler) ==
  /\ pc[Prober] = "idle"
  /\ commands' = MapSet(commands, name, handler)
  /\ UNCHANGED <<activeClientsMap, activeClientsMutex, connOpen, chanOpen, pushes,
                 pc, bc, rm, usernames, lines, live, probes, cm, cmds, sink,
                 observed, blocked, limit>>

\* UsersCommand.HandleCommand called directly, as the test does: getUsersFunc is
\* a stub that returns users, systemMessageFunc a stub that keeps the message
TestUsersCommand(users) ==
  /\ pc[Prober] = "idle"
  /\ cmds < limit.cmds
  /\ cmds' = cmds + 1
  /\ cm' = [cm EXCEPT ![Prober] =
              ReturnOf([CmNone EXCEPT !.command = "users", !.sender = "sender",
                                      !.handler = "users", !.users = users,
                                      !.message = UsersText(users),
                                      !.calls = <<Call("getUsersFunc", "", <<>>, ""),
                                                  Call("systemMessageFunc", "",
                                                       <<UsersText(users)>>, "")>>],
                       TRUE, "")]
  /\ pc' = [pc EXCEPT ![Prober] = "users_done"]
  /\ UNCHANGED <<activeClientsMap, activeClientsMutex, connOpen, chanOpen, pushes,
                 bc, rm, usernames, lines, live, probes, commands, sink, observed, blocked, limit>>

\* cm.GetHelpText() called directly
TestGetHelpText ==
  /\ pc[Prober] = "idle"
  /\ cmds < limit.cmds
  /\ cmds' = cmds + 1
  /\ \E order \in KeyOrders(DOMAIN commands) :
       cm' = [cm EXCEPT ![Prober] =
                [CmNone EXCEPT !.message = GetHelpText(commands, order)]]
  /\ pc' = [pc EXCEPT ![Prober] = "help_done"]
  /\ UNCHANGED <<activeClientsMap, activeClientsMutex, connOpen, chanOpen, pushes,
                 bc, rm, usernames, lines, live, probes, commands, sink, observed, blocked, limit>>

\* the test has looked at what the call returned
TestReturn ==
  /\ pc[Prober] \in {"cmd_done", "help_done", "users_done"}
  /\ pc' = [pc EXCEPT ![Prober] = "probe_ret"]
  /\ cm' = [cm EXCEPT ![Prober] = CmNone]
  /\ UNCHANGED <<activeClientsMap, activeClientsMutex, connOpen, chanOpen, pushes,
                 bc, rm, usernames, lines, live, probes, commands, cmds, sink,
                 observed, blocked, limit>>

NextDispatch ==
  \/ \E name \in TestNames, handler \in MockHandlers : TestRegisterCommand(name, handler)
  \/ \E input \in TestLines, sender \in TestSenders : TestHandleCommand(input, sender)
  \/ \E users \in TestUserLists : TestUsersCommand(users)
  \/ TestGetHelpText
  \/ TestReturn

SpecDispatch == InitDispatch /\ [][NextDispatch]_vars

\* ------------------------------------------------------------- properties
NoDuplicates(q) == \A i, j \in 1..Len(q) : i # j => q[i] # q[j]

\* the worker is at a write to a session's channel: a presence list
\* (updateAllUserLists, UpdateUserList), a welcome notice, or a broadcast message
Delivering(w) ==
  \/ pc[w] \in {"reg_push", "rm_push", "ui_welcome", "ui_list"}
  \/ pc[w] = "bc_deliver" /\ bc[w].todo # <<>>

\* C1: while any worker is executing a sink write, no worker holds
\* activeClientsMutex.
C1_NoLockDuringDelivery ==
  (\E w \in Workers : Delivering(w)) => activeClientsMutex = NoHolder

\* C2: each session id occurs at most once in the whole mapping: in at most one
\* identity's collection and never twice in the same collection.
C2_SessionIdOnce ==
  \A u, v \in DOMAIN activeClientsMap :
    \A i \in 1..Len(activeClientsMap[u]), j \in 1..Len(activeClientsMap[v]) :
      activeClientsMap[u][i] = activeClientsMap[v][j] => (u = v /\ i = j)

\* two sessions of one identity and none of the other, whose session is gone again
C2_Witness ==
  /\ DOMAIN activeClientsMap = {"bob"}
  /\ Len(activeClientsMap["bob"]) = 2
  /\ pc[2] = "closed"

\* C3: whenever the mutex is free, no identity key maps to an empty collection
\* (the key of an emptied collection is deleted in the critical section that
\* emptied it).
C3_NoEmptyCollection ==
  activeClientsMutex = NoHolder =>
    \A u \in DOMAIN activeClientsMap : activeClientsMap[u] # <<>>

\* alice's only session has been removed, bob is still there, the mutex is free
C3_Witness ==
  /\ activeClientsMutex = NoHolder
  /\ pc[2] = "left_snap"
  /\ rm[2].found
  /\ "alice" \notin DOMAIN activeClientsMap
  /\ "bob" \in DOMAIN activeClientsMap

\* C4: outside a registry operation, a snapshot of all sessions holds exactly the
\* sessions registered and not yet removed, each once, and the identity listing
\* is exactly the set of their identities.
C4_SnapshotIsLiveSet ==
  activeClientsMutex = NoHolder =>
    /\ \A order \in KeyOrders(DOMAIN activeClientsMap) :
         /\ Range(SnapshotAll(activeClientsMap, order)) = live
         /\ Len(SnapshotAll(activeClientsMap, order)) = Cardinality(live)
    /\ ListIdentities(activeClientsMap) = {UserOf(s) : s \in live}

\* two sessions were registered under distinct identities, one has been removed:
\* the snapshot has one session
C4_Witness ==
  /\ activeClientsMutex = NoHolder
  /\ pc[1] = "closed"
  /\ pc[2] = "active"
  /\ pc[3] = "none"
  /\ live = {2}
  /\ ListIdentities(activeClientsMap) = {"alice"}

\* C5: removeClientSession on an id that is not in the mapping leaves the mapping
\* unchanged, pushes no presence list, starts no notice, and returns.
C5_RemoveAbsentNoEffect ==
  [][\A w \in Workers :
       (/\ pc[w] = "rm_lock"
        /\ rm[w].target \notin AllIds(activeClientsMap)
        /\ pc'[w] # pc[w])
       => /\ activeClientsMap' = activeClientsMap
          /\ pushes' = pushes
          /\ bc' = bc
          /\ pc'[w] = rm[w].ret]_vars

\* a direct remove of an id that was registered and removed before has returned
\* while other sessions are registered
C5_Witness ==
  /\ pc[Prober] = "probe_ret"
  /\ rm[Prober].target \in Sessions
  /\ ~rm[Prober].found
  /\ AllIds(activeClientsMap) # {}

\* C6: a chat broadcast has, when it returns, written to every session that was in
\* the mapping when the snapshot was taken, the sender's own sessions included.
C6_ChatReachesAll ==
  \A w \in Workers :
    (pc[w] = "bc_ret" /\ bc[w].msg.kind = "chat") =>
      /\ Range(bc[w].sent) = AllIds(bc[w].reg)
      /\ w \in Range(bc[w].sent)
      /\ bc[w].msg.user \in DOMAIN bc[w].reg
      /\ Range(bc[w].reg[bc[w].msg.user]) \subseteq Range(bc[w].sent)

\* alice holds one session and bob two: a chat from alice has reached three sinks
C6_Witness ==
  \E w \in Workers :
    /\ pc[w] = "bc_ret"
    /\ bc[w].msg.kind = "chat"
    /\ bc[w].msg.user = "alice"
    /\ DOMAIN bc[w].reg = {"alice", "bob"}
    /\ Len(bc[w].reg["alice"]) = 1
    /\ Len(bc[w].reg["bob"]) = 2
    /\ Len(bc[w].sent) = 3
    /\ bc[w].err = {}

\* sessions of the snapshot-time mapping that belong to identities other than x
OthersIn(reg, x) == UNION {Range(reg[u]) : u \in (DOMAIN reg) \ {x}}

\* C7: the join notice, a system broadcast that excludes identity X, has when it
\* returns written to every session of every other identity in the mapping at
\* snapshot time and to no session of X.
C7_ExceptSkipsIdentity ==
  \A w \in Workers :
    (pc[w] \in {"bc_deliver", "bc_ret"} /\ bc[w].msg.text = "joined") =>
      /\ \A s \in Range(bc[w].sent) : UserOf(s) # bc[w].msg.user
      /\ pc[w] = "bc_ret" => Range(bc[w].sent) = OthersIn(bc[w].reg, bc[w].msg.user)

\* bob's second session joins while his first and alice's session are registered:
\* the notice went to alice's session only
C7_Witness ==
  /\ pc[3] = "bc_ret"
  /\ bc[3].msg.text = "joined"
  /\ bc[3].msg.user = "bob"
  /\ "bob" \in DOMAIN bc[3].reg
  /\ 1 \in Range(bc[3].reg["bob"])
  /\ bc[3].sent = <<2>>

\* C8: when a broadcast call returns, every session whose write failed during
\* the pass is out of the mapping.
C8_FailedRecipientRemoved ==
  \A w \in Workers :
    pc[w] = "bc_ret" => \A s \in bc[w].err : s \notin AllIds(activeClientsMap)

\* C9: a failed write does not abort the pass: the loop visits the whole snapshot
\* in order whatever the writes return, so that when the call returns every
\* session of the snapshot has been written to; the call then returns to its
\* caller as after a pass without failure.
C9_FailureDoesNotAbort ==
  \A w \in Workers :
    pc[w] \in {"bc_deliver", "bc_ret"} =>
      /\ bc[w].sent \o bc[w].todo = bc[w].snap
      /\ pc[w] = "bc_ret" => bc[w].sent = bc[w].snap
      /\ bc[w].ret \in {"ui_welcome", "active", "closed"}

\* a broadcast has returned in which a write failed and a later write succeeded
C9_Witness ==
  \E w \in Workers :
    /\ pc[w] = "bc_ret"
    /\ \E i, j \in 1..Len(bc[w].sent) :
         /\ i < j
         /\ bc[w].sent[i] \in bc[w].err
         /\ bc[w].sent[j] \notin bc[w].err

\* C10: within one broadcast call no session is written to twice.
C10_AtMostOnce == \A w \in Workers : NoDuplicates(bc[w].sent)

\* a broadcast to two or more sessions has returned, and the mapping changed
\* between its snapshot and its return
C10_Witness ==
  \E w \in Workers :
    /\ pc[w] = "bc_ret"
    /\ Len(bc[w].sent) >= 2
    /\ bc[w].reg # activeClientsMap

\* C11: on every sink, two chat messages that one session submitted one after the
\* other stand in the order of their submission.
C11_OrderPerRecipient ==
  \A t \in Sessions :
    \A i, j \in 1..Len(sink[t]) :
      (/\ i < j
       /\ sink[t][i].kind = "chat"
       /\ sink[t][j].kind = "chat"
       /\ sink[t][i].from = sink[t][j].from)
      => sink[t][i].n < sink[t][j].n

\* a session of another identity has received both lines of one session
C11_Witness ==
  \E t \in Sessions :
    \E i, j \in 1..Len(sink[t]) :
      /\ i < j
      /\ sink[t][i].kind = "chat"
      /\ sink[t][j].kind = "chat"
      /\ sink[t][i].from = sink[t][j].from
      /\ sink[t][i].n # sink[t][j].n
      /\ UserOf(t) # sink[t][i].user

\* C12: the reply of a command reaches only sessions of the identity that issued
\* the command: every reply on a sink was caused by a session of the sink's own
\* identity.
C12_ReplyOnlyToIssuer ==
  \A t \in Sessions :
    \A i \in 1..Len(sink[t]) :
      sink[t][i].kind = "reply" => UserOf(sink[t][i].from) = UserOf(t)

\* the position of the first item of the kind that session s caused, 0 if none
FirstOf(q, kind, s) ==
  IF \E i \in 1..Len(q) : q[i].kind = kind /\ q[i].from = s
    THEN CHOOSE i \in 1..Len(q) :
           /\ q[i].kind = kind /\ q[i].from = s
           /\ \A j \in 1..(i - 1) : ~(q[j].kind = kind /\ q[j].from = s)
    ELSE 0

\* C13: clear resets only sinks of the sender's own sessions, and on a sink the
\* reset comes before the confirmation notice.
C13_ClearOnlySender ==
  \A t \in Sessions :
    /\ \A i \in 1..Len(sink[t]) :
         sink[t][i].kind = "clear" => UserOf(sink[t][i].from) = UserOf(t)
    /\ \A i \in 1..Len(sink[t]) :
         (sink[t][i].kind = "reply" /\ sink[t][i].text = "Screen cleared")
         => (FirstOf(sink[t], "clear", sink[t][i].from) \in 1..(i - 1))

\* the line after the keyword, its space, the first argument and its space
AfterRecipient(input) == SplitN2(SplitN2(Tail(input))[2])[2]

\* C14: the whisper function, called for sender S, recipient R and the words
\* after the recipient, writes "To R: m" to every session of S and "From S: m" to
\* every session of R, m being those words separated by single spaces as typed,
\* and writes to no other session.
C14_WhisperDelivery ==
  [][\A s \in Sessions :
       (pc[s] = "cmd_whisper" /\ pc'[s] # pc[s]) =>
         LET S == UserOf(s)
             R == ParseCommand(cm[s].input).args[1]
             m == Str(AfterRecipient(cm[s].input))
             to == CmdMsg("whisper", "To " \o R \o ": " \o m, s)
             from == CmdMsg("whisper", "From " \o S \o ": " \o m, s)
         IN  \A t \in observed :
               sink'[t] =
                 sink[t]
                 \o (IF chanOpen[t] /\ t \in Range(SessionsOf(activeClientsMap, S))
                       THEN <<to>> ELSE <<>>)
                 \o (IF chanOpen[t] /\ t \in Range(SessionsOf(activeClientsMap, R))
                       THEN <<from>> ELSE <<>>)]_vars

\* bob's session 1 has whispered two words to alice: bob's other session holds
\* the "To" copy and nothing else
C14_Witness ==
  /\ pc[1] = "cmd_done"
  /\ observed = {3}
  /\ sink[3] = <<CmdMsg("whisper", "To alice: hi yo", 1)>>
  /\ "alice" \in DOMAIN activeClientsMap

\* the callbacks the call has made so far, by name
CallNames(c) == [i \in 1..Len(c.calls) |-> c.calls[i].fn]

\* C15: when the existence lookup of a whisper finds the recipient's identity
\* missing from the mapping, the handler goes on to the not-found notice and not
\* to the whisper function; when the call returns the sender's session has been
\* sent the notice, the whisper function was never called, and nothing but the
\* notice was written to any sink.
C15_NotFoundNoWhisper ==
  [][\A s \in Sessions :
       /\ (/\ pc[s] = "cmd_exists" /\ pc'[s] # pc[s]
           /\ cm[s].args[1] \notin DOMAIN activeClientsMap)
          => /\ pc'[s] = "cmd_msg"
             /\ cm'[s].message = "User '" \o cm[s].args[1] \o "' not found"
             /\ sink' = sink
       /\ (/\ pc[s] = "cmd_msg" /\ pc'[s] # pc[s]
           /\ "userExistsFunc" \in Range(CallNames(cm[s])))
          => /\ pc'[s] = "cmd_done"
             /\ "whisperFunc" \notin Range(CallNames(cm'[s]))
             /\ \A t \in Sessions :
                  sink'[t] \in {sink[t], Append(sink[t], CmdMsg("reply", cm[s].message, s))}
             /\ (s \in observed /\ chanOpen[s]) =>
                  sink'[s] = Append(sink[s], CmdMsg("reply", cm[s].message, s))
             /\ cm'[s].handled /\ cm'[s].err = ""]_vars

\* alice's session has whispered to carol, who is not registered, and holds the
\* notice; bob is registered
C15_Witness ==
  /\ pc[2] = "cmd_done"
  /\ observed = {2}
  /\ sink[2] = <<CmdMsg("reply", "User 'carol' not found", 2)>>
  /\ CallNames(cm[2]) = <<"whisper", "userExistsFunc", "systemMessageFunc">>
  /\ "bob" \in DOMAIN activeClientsMap

\* C16: a whisper called with fewer than two arguments answers with the usage
\* notice and returns (true, nil) without having called the existence lookup or
\* the whisper function.
C16_UsageNoLookup ==
  \A s \in Sessions :
    (pc[s] = "cmd_done" /\ cm[s].handler = "whisper" /\ Len(cm[s].args) < 2) =>
      /\ CallNames(cm[s]) = <<"whisper", "systemMessageFunc">>
      /\ cm[s].calls[2].args = <<"Usage: /whisper <username> <message>">>
      /\ cm[s].handled
      /\ cm[s].err = ""

\* bob's session typed a recipient and no message word and holds the usage notice
C16_Witness ==
  /\ pc[1] = "cmd_done"
  /\ cm[1].args = <<"bob">>
  /\ observed = {1}
  /\ sink[1] = <<CmdMsg("reply", "Usage: /whisper <username> <message>", 1)>>

\* the worker's HandleCommand call is entered in this step
Entering(s) == pc[s] = "line" /\ pc'[s] # "line"

\* C19: a line with the marker whose keyword, compared exactly, is not in the
\* table makes HandleCommand return (true, "unknown command: <keyword>") having
\* called no handler and changed neither the table nor the mapping nor any sink,
\* and having started no broadcast; the input handler then writes the error to the
\* session that typed the line and to no other.
C19_UnknownNoSideEffect ==
  [][\A s \in Sessions :
       /\ (/\ Entering(s)
           /\ HasPrefix(cm'[s].input)
           /\ Str(SplitN2(Tail(cm'[s].input))[1]) \notin DOMAIN commands)
          => /\ cm'[s].handled
             /\ cm'[s].err = "unknown command: " \o Str(SplitN2(Tail(cm'[s].input))[1])
             /\ cm'[s].calls = <<>>
             /\ pc'[s] = "cmd_done"
             /\ commands' = commands
             /\ activeClientsMap' = activeClientsMap
             /\ bc' = bc
             /\ sink' = sink
       /\ (pc[s] = "cmd_done" /\ cm[s].err # "" /\ pc'[s] # pc[s])
          => /\ pc'[s] = "active"
             /\ bc' = bc
             /\ activeClientsMap' = activeClientsMap
             /\ \A t \in Sessions \ {s} : sink'[t] = sink[t]]_vars

\* bob's session typed "/Help" while alice is registered: the call has returned
\* the error and alice's sink is empty
C19_Witness ==
  /\ pc[1] = "cmd_done"
  /\ cm[1].input = <<"/", "Help">>
  /\ cm[1].err = "unknown command: Help"
  /\ "alice" \in DOMAIN activeClientsMap
  /\ observed = {2}
  /\ sink[2] = <<>>

\* the text between the marker and the first space of a line with the marker
KeywordOf(input) == Str(SplitN2(Tail(input))[1])

\* C17: a line that does not begin with the marker makes HandleCommand return
\* (false, nil) without calling a handler, whatever the table holds.
C17_NonCommandPassesThrough ==
  \A w \in Workers :
    (pc[w] = "cmd_done" /\ (cm[w].input = <<>> \/ cm[w].input[1] # "/")) =>
      /\ ~cm[w].handled
      /\ cm[w].err = ""
      /\ cm[w].calls = <<>>

\* a line with the marker in its middle, and a table that knows the keyword
C17_Witness ==
  /\ pc[Prober] = "cmd_done"
  /\ cm[Prober].input = <<"test", " ", "/", "test">>
  /\ "test" \in DOMAIN commands

\* C18: a line "/k ..." whose keyword k is in the table makes HandleCommand call
\* one handler, the one registered under k, with (k, the parsed arguments, the
\* sender), and return the pair that handler returns, error and handled=false
\* included.
C18_RegisteredKeywordRoutes ==
  \A w \in Workers :
    (/\ pc[w] = "cmd_done"
     /\ cm[w].input # <<>>
     /\ cm[w].input[1] = "/"
     /\ KeywordOf(cm[w].input) \in DOMAIN commands) =>
      LET k == KeywordOf(cm[w].input)
      IN  /\ Len(cm[w].calls) = 1
          /\ cm[w].calls[1] =
               Call(commands[k], k, ParseCommand(cm[w].input).args, cm[w].sender)
          /\ commands[k] \in MockHandlers =>
               /\ cm[w].handled = MockShouldHandle(commands[k])
               /\ (cm[w].err # "") = MockShouldError(commands[k])

\* both keywords are registered with different handlers; "/test arg1 arg2" went to
\* a handler that returns handled=false and an error
C18_Witness ==
  /\ pc[Prober] = "cmd_done"
  /\ cm[Prober].input = <<"/", "test", " ", "arg1", " ", "arg2">>
  /\ DOMAIN commands = {"test", "error"}
  /\ commands["test"] = "mockPassErr"
  /\ commands["error"] = "mockOk"
  /\ cm[Prober].calls = <<Call("mockPassErr", "test", <<"arg1", "arg2">>, "sender")>>
  /\ ~cm[Prober].handled
  /\ cm[Prober].err = "mock error"

\* C20: the arguments a handler is called with hold no empty string, and are
\* none when nothing but spaces follows the keyword.
C20_NoEmptyArgument ==
  \A w \in Workers :
    (pc[w] = "cmd_done" /\ cm[w].calls # <<>>) =>
      /\ \A i \in 1..Len(cm[w].calls[1].args) : cm[w].calls[1].args[i] # ""
      /\ (\A i \in 3..Len(cm[w].input) : cm[w].input[i] = " ")
         => cm[w].calls[1].args = <<>>

\* the lines "/<keyword> - <help>" of the keywords in q, in that order
RECURSIVE OneLineEach(_, _)
OneLineEach(table, q) ==
  IF q = <<>> THEN ""
  ELSE "/" \o Head(q) \o " - " \o CommandHelp(table[Head(q)]) \o "\n"
       \o OneLineEach(table, Tail(q))

\* C21: after any sequence of registrations the help text is the header followed by
\* exactly one line "/<keyword> - <help>" for each registered keyword, carrying
\* the help of the handler registered last under it, in some order
C21_HelpListsEveryKeyword ==
  pc[Prober] = "help_done" =>
    \E q \in [1..Cardinality(DOMAIN commands) -> DOMAIN commands] :
      /\ \A k \in DOMAIN commands : Cardinality({i \in DOMAIN q : q[i] = k}) = 1
      /\ cm[Prober].message = "Available commands:\n" \o OneLineEach(commands, q)
C21_Witness ==
  /\ pc[Prober] = "help_done"
  /\ DOMAIN commands = TestNames
  /\ commands["test"] # commands["error"]

\* the lines "- <identity>" of the identities in q, in that order
RECURSIVE OneLinePerIdentity(_)
OneLinePerIdentity(q) ==
  IF q = <<>> THEN "" ELSE "- " \o Head(q) \o "\n" \o OneLinePerIdentity(Tail(q))

\* C22: the users command is handled without error and its reply is "Online users
\* (n):" with n the number of distinct identities, followed by one line "- <identity>"
\* per identity; with no identity the reply is "No users are currently online".
C22_UsersReply ==
  pc[Prober] = "users_done" =>
    LET c == cm[Prober]
        ids == Range(c.users)
    IN  /\ c.handled /\ c.err = ""
        /\ c.calls[Len(c.calls)].args = <<c.message>>
        /\ IF ids = {}
             THEN c.message = "No users are currently online"
             ELSE /\ Len(c.users) = Cardinality(ids)
                  /\ c.message = "Online users (" \o ToString(Cardinality(ids)) \o "):\n"
                                  \o OneLinePerIdentity(c.users)
\* the stub returned no user
C22_Witness ==
  /\ pc[Prober] = "users_done"
  /\ cm[Prober].users = <<>>
  /\ cm[Prober].message = "No users are currently online"

\* the line holds the marker first and then the keyword of a built-in command
NamesBuiltin(input) ==
  /\ input # <<>>
  /\ input[1] = "/"
  /\ KeywordOf(input) \in {"help", "users", "whisper", "clear"}

\* C23: whatever follows the keyword, help, users, whisper and clear return
\* (true, nil), and a line that names one of them starts no broadcast: when the
\* input handler is done the session is Active again and no worker sends anything new.
C23_BuiltinsAlwaysHandled ==
  [][\A s \in Sessions :
       /\ (pc'[s] = "cmd_done" /\ NamesBuiltin(cm'[s].input))
          => cm'[s].handled /\ cm'[s].err = ""
       /\ (pc[s] = "cmd_done" /\ NamesBuiltin(cm[s].input) /\ pc'[s] # "cmd_done")
          => pc'[s] = "active" /\ bc' = bc]_vars

\* "/whisper bob", one argument short, has returned (true, nil)
C23_Witness ==
  /\ pc[1] = "cmd_done"
  /\ cm[1].input = <<"/", "whisper", " ", "bob">>
  /\ cm[1].handled
  /\ cm[1].err = ""
  /\ bc[1] = BcNone

\* the step hands the line the session read to HandleCommand
Offered(s) ==
  /\ cm'[s].input = cm[s].input
  /\ cm'[s].sender = UserOf(s)
  /\ pc'[s] \in {"cmd_msg", "cmd_users", "cmd_exists", "cmd_clear", "cmd_done"}

\* the step starts the broadcast of the session's line as chat
BroadcastAsChat(s) ==
  /\ bc[s] = BcNone
  /\ bc'[s].msg.kind = "chat"
  /\ bc'[s].msg.user = UserOf(s)
  /\ bc'[s].msg.text = Str(cm[s].input)

\* what the input handler does with the pair HandleCommand returned: broadcast as
\* chat exactly when it is (false, nil); on an error "Error: <message>" to the
\* session and no broadcast
AfterDispatch(s) ==
  (pc[s] = "cmd_done" /\ pc'[s] # "cmd_done") =>
    /\ BroadcastAsChat(s) <=> (~cm[s].handled /\ cm[s].err = "")
    /\ ~BroadcastAsChat(s) => bc' = bc
    /\ cm[s].err # "" =>
         /\ ~BroadcastAsChat(s)
         /\ sink'[s] = IF s \in observed /\ chanOpen[s]
                         THEN Append(sink[s], CmdMsg("error", "Error: " \o cm[s].err, s))
                         ELSE sink[s]
    /\ cm[s].err = "" => sink' = sink

\* C24 as stated: every line read in the Active state is handed to HandleCommand,
\* and what follows is as AfterDispatch says.
C24_EveryLineDispatched ==
  [][\A s \in Sessions :
       /\ (pc[s] = "line" /\ pc'[s] # "line") => Offered(s)
       /\ AfterDispatch(s)]_vars

\* C24, amended: every line read that is not empty is handed to HandleCommand, and
\* what follows is as AfterDispatch says; an empty line is dropped: it is neither
\* handed to HandleCommand nor broadcast, and nothing is written.
C24_NonEmptyLineDispatched ==
  [][\A s \in Sessions :
       /\ (pc[s] = "line" /\ pc'[s] # "line") =>
            IF cm[s].input # <<>>
              THEN Offered(s)
              ELSE /\ pc'[s] = "active"
                   /\ cm'[s] = CmNone
                   /\ bc' = bc
                   /\ sink' = sink
       /\ AfterDispatch(s)]_vars

\* bob's session typed "hi"; HandleCommand returned (false, nil) and the line is
\* on its way to the recipients as chat
C24_Witness ==
  /\ pc[1] = "bc_deliver"
  /\ bc[1].msg.kind = "chat"
  /\ bc[1].msg.text = "hi"
  /\ cmds = 1
  /\ cm[1] = CmNone

\* C25: the notice of an unknown command is written to the sink of the session
\* that typed the line and to no other sink; nothing is broadcast, the mapping
\* keeps the session, and the session is Active again.
C25_UnknownErrorToIssuerOnly ==
  [][\A s \in Sessions :
       (/\ pc[s] = "cmd_done"
        /\ pc'[s] # "cmd_done"
        /\ cm[s].input # <<>>
        /\ cm[s].input[1] = "/"
        /\ KeywordOf(cm[s].input) \notin DOMAIN commands)
       => /\ (s \in observed /\ chanOpen[s]) =>
               sink'[s] = Append(sink[s],
                                 CmdMsg("error", "Error: unknown command: "
                                                 \o KeywordOf(cm[s].input), s))
          /\ \A t \in Sessions \ {s} : sink'[t] = sink[t]
          /\ bc' = bc
          /\ activeClientsMap' = activeClientsMap
          /\ s \in AllIds(activeClientsMap')
          /\ pc'[s] = "active"
          /\ chanOpen'[s] = chanOpen[s]]_vars

\* bob's session typed "/Help": the notice is in its sink, it is Active and
\* registered, and alice is registered too
C25_Witness ==
  /\ observed = {1}
  /\ sink[1] = <<CmdMsg("error", "Error: unknown command: Help", 1)>>
  /\ pc[1] = "active"
  /\ 1 \in AllIds(activeClientsMap)
  /\ "alice" \in DOMAIN activeClientsMap

\* the session has been taken out of the mapping and handleUISession has returned
Closed(t) == pc[t] = "closed"

\* the worker's delivery loop writes to the next session of its snapshot in this step
DeliversTo(w, t) ==
  /\ pc[w] = "bc_deliver"
  /\ bc[w].todo # <<>>
  /\ Head(bc[w].todo) = t
  /\ bc'[w].todo # bc[w].todo

\* C29 as stated: a session that is Closed is in no collection, so no whisper and
\* no presence list is written to it, and no broadcast writes to it either.
C29_NoDeliveryToClosed ==
  [][\A t \in Sessions :
       Closed(t) => /\ t \notin AllIds(activeClientsMap)
                    /\ \A w \in Workers : ~DeliversTo(w, t)]_vars

\* C29, amended: a session that is Closed is in no collection, so no whisper and no
\* presence list is written to it, and no snapshot taken from then on holds it; a
\* broadcast that took its snapshot while the session was registered may still
\* write to it, and that write fails.
C29_NoNewDeliveryToClosed ==
  [][\A t \in Sessions :
       /\ Closed(t) => t \notin AllIds(activeClientsMap)
       /\ \A w \in Workers :
            /\ (Closed(t) /\ bc[w] = BcNone /\ bc'[w] # BcNone)
               => t \notin Range(bc'[w].snap)
            /\ (Closed(t) /\ DeliversTo(w, t))
               => /\ t \in AllIds(bc[w].reg)
                  /\ t \in bc'[w].err
                  /\ sink' = sink]_vars

\* alice's chat line took its snapshot while bob's session 1 was registered;
\* session 1 has since been removed and its goroutine has returned, and the
\* line's delivery loop is about to write to it
C29_Witness ==
  /\ Closed(1)
  /\ 1 \notin AllIds(activeClientsMap)
  /\ pc[2] = "bc_deliver"
  /\ bc[2].msg.kind = "chat"
  /\ bc[2].todo # <<>>
  /\ Head(bc[2].todo) = 1

\* C30: the step in which a session's read loop ends and its teardown begins
\* leaves every other session as it was: its channel stays open or closed as before,
\* it is where it was in its code, and it stays in the mapping.
C30_TeardownScopedToSession ==
  [][\A s \in Sessions :
       (pc[s] = "active" /\ pc'[s] = "rm_lock") =>
         \A t \in Sessions \ {s} :
           /\ chanOpen'[t] = chanOpen[t]
           /\ pc'[t] = pc[t]
           /\ t \in AllIds(activeClientsMap) => t \in AllIds(activeClientsMap')]_vars

\* the lines "  <identity>" of the identities in q, in that order
RECURSIVE OneLinePerOther(_)
OneLinePerOther(q) ==
  IF q = <<>> THEN "" ELSE "  " \o Head(q) \o "\n" \o OneLinePerOther(Tail(q))

\* the presence lists that show session t the identities ids: t's own identity
\* first, then every other identity of ids once, in some order
PresenceTexts(t, ids) ==
  LET others == ids \ {UserOf(t)}
  IN  {"Users online:\n  " \o UserOf(t) \o " (you)\n" \o OneLinePerOther(q) :
         q \in {p \in [1..Cardinality(others) -> others] :
                  \A u \in others : \E i \in DOMAIN p : p[i] = u}}

\* the step writes to every session of the mapping as it is after the step, and
\* to no other, one presence list of the identities of that mapping
PushesNewList ==
  \A t \in Sessions :
    IF t \in AllIds(activeClientsMap') /\ t \in observed /\ chanOpen[t]
      THEN /\ Len(sink'[t]) = Len(sink[t]) + 1
           /\ SubSeq(sink'[t], 1, Len(sink[t])) = sink[t]
           /\ sink'[t][Len(sink'[t])].kind = "userlist"
           /\ sink'[t][Len(sink'[t])].text
                \in PresenceTexts(t, DOMAIN activeClientsMap')
      ELSE sink'[t] = sink[t]

\* C28: a session that has been appended to its collection goes on, still holding
\* the lock, to the presence push, and so does a removal that found its session; the
\* push sends every session then in the mapping the identities then in the mapping.
C28_MutationPushesPresence ==
  [][\A w \in Workers :
       /\ (pc[w] = "none" /\ pc'[w] # "none")
          => /\ w \in AllIds(activeClientsMap')
             /\ pc'[w] = "reg_push"
             /\ activeClientsMutex' = w
       /\ (pc[w] = "reg_push" /\ pc'[w] # "reg_push")
          => /\ activeClientsMap' = activeClientsMap
             /\ PushesNewList
       /\ (pc[w] = "rm_lock" /\ pc'[w] # "rm_lock" /\ activeClientsMap' # activeClientsMap)
          => /\ pc'[w] = "rm_push"
             /\ activeClientsMutex' = w
       /\ (pc[w] = "rm_push" /\ pc'[w] # "rm_push")
          => /\ AllIds(activeClientsMap') = AllIds(activeClientsMap)
             /\ PushesNewList]_vars

\* alice's session saw bob's session 1 come (a list with bob) and go (a list
\* without bob), both sent by session 1's goroutines
C28_Witness ==
  /\ observed = {2}
  /\ \E i, j \in DOMAIN sink[2] :
       /\ i < j
       /\ sink[2][i] = Msg("userlist", "alice", "Users online:\n  alice (you)\n  bob\n", 1, 0)
       /\ sink[2][j] = Msg("userlist", "alice", "Users online:\n  alice (you)\n", 1, 0)

\* C26: a session starts no broadcast before it is in the mapping; its joined
\* notice takes its snapshot with the session in the mapping and goes to the
\* sessions of every other identity; the step that makes the session Active writes
\* it a presence list naming it and the identities read since it registered; and a
\* line of the session is taken only once it is Active, after that list.
C26_RegisterThenJoinThenList ==
  [][\A s \in Sessions :
       /\ pc[s] \in {"none", "reg_push"} => bc[s] = BcNone
       /\ (pc[s] = "join_snap" /\ pc'[s] # "join_snap")
          => /\ s \in AllIds(activeClientsMap)
             /\ bc'[s].msg = SystemMsg("joined", UserOf(s), s)
             /\ Range(bc'[s].snap) =
                  {t \in AllIds(activeClientsMap) : UserOf(t) # UserOf(s)}
       /\ (pc[s] = "ui_list" /\ pc'[s] # "ui_list")
          => /\ pc'[s] = "active"
             /\ UserOf(s) \in usernames[s]
             /\ (s \in observed /\ chanOpen[s])
                => /\ Len(sink'[s]) = Len(sink[s]) + 1
                   /\ sink'[s][Len(sink'[s])].kind = "userlist"
                   /\ sink'[s][Len(sink'[s])].from = s
                   /\ sink'[s][Len(sink'[s])].text \in PresenceTexts(s, usernames[s])
       /\ lines' # lines /\ bc'[s] # bc[s]
          => /\ pc[s] = "active"
             /\ (s \in observed /\ chanOpen[s])
                => \E i \in DOMAIN sink[s] :
                     sink[s][i].kind = "userlist" /\ sink[s][i].from = s]_vars

\* alice's session 2 joined while bob was registered, was shown the list of both
\* by its own goroutine, and has its first line on the way
C26_Witness ==
  /\ observed = {2}
  /\ \E i \in DOMAIN sink[2] :
       sink[2][i] = Msg("userlist", "alice", "Users online:\n  alice (you)\n  bob\n", 2, 0)
  /\ bc[2].msg.kind = "chat"
  /\ 1 \in AllIds(activeClientsMap)

\* the session's left notice has been written to every session of its snapshot,
\* which was taken with the session out of the mapping
LeftBroadcast(s) ==
  /\ pc[s] = "bc_ret"
  /\ bc[s].ret = "closed"
  /\ bc[s].msg = SystemMsg("left", UserOf(s), s)
  /\ s \notin AllIds(bc[s].reg)
  /\ Range(bc[s].snap) = AllIds(bc[s].reg)
  /\ Range(bc[s].sent) = Range(bc[s].snap)
  /\ s \notin AllIds(activeClientsMap)

\* C27: whenever the channel of a session that has registered is closed, so that
\* its ReadLine fails, the session is eventually out of the mapping and its left
\* notice has then been sent to every session the mapping held after the removal.
C27_EndOfInputLeadsToLeft ==
  \A s \in Sessions :
    (pc[s] \notin {"none", "closed"} /\ ~chanOpen[s]) ~> LeftBroadcast(s)

\* bob's session 1 ended while alice was registered; it is out of the mapping and
\* its left notice has been written to alice's session
C27_Witness ==
  /\ LeftBroadcast(1)
  /\ bc[1].sent = <<2>>

\* the worker has called Write on a channel that takes nothing and stays open:
\* the call does not return
StuckInWrite(w) ==
  \/ /\ pc[w] \in {"reg_push", "rm_push"}
     /\ \E t \in AllIds(activeClientsMap) : ~WriteReturns(t)
  \/ /\ pc[w] \in {"ui_welcome", "ui_list"}
     /\ ~WriteReturns(w)
  \/ /\ pc[w] = "bc_deliver"
     /\ bc[w].todo # <<>>
     /\ ~WriteReturns(Head(bc[w].todo))

\* C31: a worker whose write does not return does not hold activeClientsMutex, so
\* that register, remove and snapshot of every other worker can go on.
C31_StuckWriterHoldsNoLock ==
  \A w \in Workers : StuckInWrite(w) => activeClientsMutex # w

\* C32: every write of a broadcast goes to a session that the mapping held when
\* the broadcast took its snapshot; a session registered after the snapshot is
\* not written to, whether or not its registration ends before the pass does.
C32_DeliversToSnapshotOnly ==
  [][\A w \in Workers :
       (pc[w] = "bc_deliver" /\ bc'[w].sent # bc[w].sent) =>
         /\ bc'[w].sent = Append(bc[w].sent, Head(bc[w].todo))
         /\ Head(bc[w].todo) \in AllIds(bc[w].reg)
         /\ bc'[w].reg = bc[w].reg
         /\ \A t \in AllIds(activeClientsMap) \ AllIds(bc[w].reg) :
              t \notin Range(bc'[w].sent)]_vars

\* a broadcast has written to all of its snapshot while a session that
\* registered after the snapshot is serving its client, and has not written to it
C32_Witness ==
  \E w \in Workers, t \in Sessions :
    /\ pc[w] = "bc_deliver"
    /\ bc[w].todo = <<>>
    /\ bc[w].sent # <<>>
    /\ t \in AllIds(activeClientsMap) \ AllIds(bc[w].reg)
    /\ pc[t] = "active"
    /\ chanOpen[t]
    /\ t \notin Range(bc[w].sent)

\* no worker is between a Lock of the registry and the end of the presence push
\* that follows it, and no session is between registering and becoming Active
Quiescent ==
  /\ activeClientsMutex = NoHolder
  /\ \A w \in Workers : pc[w] \in {"none", "idle", "active", "closed"}

\* the text of the newest presence list in the sink log q ("" when it has none)
LastUserList(q) ==
  LET I == {i \in DOMAIN q : q[i].kind = "userlist"}
  IN  IF I = {} THEN "" ELSE q[CHOOSE i \in I : \A j \in I : j <= i].text

\* C33: in a quiescent state the newest presence list of every registered session
\* whose channel is open shows the identities the mapping then holds.
C33_PresenceConverges ==
  Quiescent =>
    \A t \in observed \cap AllIds(activeClientsMap) :
      (chanOpen[t] /\ pc[t] = "active") =>
        LastUserList(sink[t]) \in PresenceTexts(t, DOMAIN activeClientsMap)

\* C34: when the whisper function writes the "To R: m" copy to an open session of
\* the sender, the mapping holds a session of R for the "From S: m" copy.
C34_WhisperHasRecipient ==
  [][\A s \in Sessions :
       (/\ pc[s] = "cmd_whisper" /\ pc'[s] # pc[s]
        /\ \E t \in Range(SessionsOf(activeClientsMap, cm[s].sender)) : WriteOk(t))
       => Range(SessionsOf(activeClientsMap, cm[s].args[1])) # {}]_vars

\* the worker's next step is a Lock of activeClientsMutex
WaitsForLock(w) == pc[w] \in {"join_snap", "ui_names", "left_snap", "rm_lock"}

ReadsMapping(w) ==
  \/ pc[w] \in {"join_snap", "left_snap", "active"} /\ pc'[w] = "bc_deliver"
  \/ pc[w] = "ui_names" /\ pc'[w] = "ui_list"

\* C36: a step that changes the mapping is the step of a worker that holds the
\* mutex or takes it in that step; a step that reads the mapping is taken with the
\* mutex free for the reader and leaves it free; a worker about to run
\* updateAllUserLists holds the mutex; and no removal runs with lock=false unless
\* its worker holds the mutex.
C36_MappingUnderLock ==
  [][/\ activeClientsMap' # activeClientsMap =>
          \E w \in Workers :
            /\ pc'[w] # pc[w]
            /\ pc[w] \in {"none", "rm_lock", "rm_push"}
            /\ IF pc[w] = "rm_push" THEN activeClientsMutex = w
                                    ELSE activeClientsMutex = NoHolder /\ activeClientsMutex' = w
     /\ \A w \in Workers :
          /\ ReadsMapping(w) =>
               activeClientsMutex = NoHolder /\ activeClientsMutex' = NoHolder
          /\ pc'[w] \in {"reg_push", "rm_push"} => activeClientsMutex' = w
          /\ (pc'[w] \in RmLabels /\ ~rm'[w].lock) => activeClientsMutex' = w]_vars

\* a removal has stored the filtered collection and holds the mutex for its
\* presence push while another session waits to read the identities
C36_Witness ==
  \E w, v \in Sessions :
    /\ pc[w] = "rm_push"
    /\ activeClientsMutex = w
    /\ rm[w].target \notin AllIds(activeClientsMap)
    /\ pc[v] = "ui_names"

\* the notices of session s
JoinedNotice(s) == SystemMsg("joined", UserOf(s), s)
LeftNotice(s) == SystemMsg("left", UserOf(s), s)

\* C37: the left notice of a session takes its snapshot with no broadcast of that
\* session in flight, its joined notice is never started after its left notice,
\* and every write to a sink leaves the joined notice of a session standing before
\* its left notice.
C37_JoinedBeforeLeft ==
  [][\A s \in Sessions :
       /\ (bc'[s].msg = LeftNotice(s) /\ bc[s].msg # LeftNotice(s))
          => /\ bc[s] = BcNone
             /\ pc[s] = "left_snap"
       /\ bc'[s].msg = JoinedNotice(s) => pc'[s] # "closed"
       /\ pc[s] = "closed" => bc'[s].msg # JoinedNotice(s)
       /\ \A t \in observed :
            sink'[t] # sink[t] =>
              \A i, j \in DOMAIN sink'[t] :
                (sink'[t][i] = LeftNotice(s) /\ sink'[t][j] = JoinedNotice(s)) => j < i]_vars

\* alice's session has been sent the joined notice of bob's session 1 and, later,
\* its left notice
C37_Witness ==
  /\ observed = {2}
  /\ \E i, j \in DOMAIN sink[2] :
       /\ i < j
       /\ sink[2][i] = JoinedNotice(1)
       /\ sink[2][j] = LeftNotice(1)

\* C38: the left notice of a session takes its snapshot after the session is out
\* of the mapping, so the session is not among its recipients; a session becomes
\* closed by returning from that one broadcast and starts no other; and when the
\* broadcast returns, every session its identity still held at the snapshot has
\* taken the notice.
C38_LeftAfterRemoval ==
  [][\A s \in Sessions :
       /\ (bc'[s].msg = LeftNotice(s) /\ bc[s].msg # LeftNotice(s))
          => /\ s \notin AllIds(activeClientsMap)
             /\ s \notin Range(bc'[s].snap)
       /\ (pc'[s] = "closed" /\ pc[s] # "closed")
          => /\ pc[s] = "bc_ret"
             /\ bc[s].msg = LeftNotice(s)
             /\ \A t \in Range(SessionsOf(bc[s].reg, UserOf(s))) :
                  t \in Range(bc[s].sent) \ bc[s].err
       /\ pc[s] = "closed" => (pc'[s] = "closed" /\ bc'[s] = BcNone)]_vars

\* C39: the step that follows the reading of an empty line puts the session back
\* to reading: no call of HandleCommand, no handler or callback, no broadcast, no
\* write to any sink, and the mapping as it was.
C39_EmptyLineDropped ==
  [][\A s \in Sessions :
       (Entering(s) /\ cm[s].input = <<>>) =>
         /\ pc'[s] = "active"
         /\ cm'[s] = CmNone
         /\ bc' = bc
         /\ sink' = sink
         /\ activeClientsMap' = activeClientsMap
         /\ activeClientsMutex' = activeClientsMutex
         /\ commands' = commands]_vars

\* bob's session 1 is alone, has read its one line and is reading again with
\* nothing written to it and no broadcast started: the line was empty
C39_Witness ==
  /\ observed = {1}
  /\ AllIds(activeClientsMap) = {1}
  /\ cmds = 1
  /\ pc[1] = "active"
  /\ chanOpen[1]
  /\ bc[1] = BcNone
  /\ sink[1] = <<>>
====
